---- MODULE Spec2Model ----
(***************************************************************************)
(* A model of the notisense delivery subsystem:                            *)
(*   - the Job Store (table "notifications") with its row locks,           *)
(*   - the intake path (NotificationService.queue_notification and         *)
(*     queue_bulk_notifications) and the background runner it schedules    *)
(*     (process_notifications_async),                                      *)
(*   - the poll-loop worker (main_loop, process_batch),                    *)
(*   - the mail provider's retrier (_retry) and its bulk sender            *)
(*     (send_email_to_many).                                               *)
(* Every asynchronous function is cut at its await points: one action per  *)
(* stretch of code that runs between two awaits.                           *)
(***************************************************************************)
EXTENDS Integers, Sequences, FiniteSets, TLC

----------------------------------------------------------------------------
(* Bounds of the model *)

\* number of rows the Job Store can hold
MaxJobs == 3
\* number of rows the intake requests of Spec insert
MaxQueued == 2
\* creation times of the rows SpecClaim starts from run over 0..MaxCreated
MaxCreated == 2
\* number of poll-loop worker processes
NumWorkers == 2
\* number of intake requests (each schedules one background run)
MaxReq == 1
\* the clock runs over 0..MaxTime
MaxTime == 1
\* notification_sender.BATCH_SIZE (50 in the source), scaled down
BATCH_SIZE == 2
\* settings.NOTIFICATION_MAX_CONCURRENCY and service.MAX_CONCURRENCY
\* (both 10 in the source), scaled down
MAX_CONCURRENCY == 1
\* the batch_size process_notifications_async hands to send_email_to_many
\* (50 in the source), scaled down
CHUNK_SIZE == 1
\* the concurrency process_notifications_async hands to send_email_to_many
\* (5 in the source), scaled down
CHUNK_CONCURRENCY == 1
\* largest `attempts` the retrier is run with
MaxAttempts == 6
\* random.random() is drawn from {k / JitterSteps : k \in 0..JitterSteps-1}
JitterSteps == 4
\* send_email_to_many is run with up to MaxRecipients non-blank recipients,
\* batch_size in 1..MaxBatchSize, concurrency in 1..MaxChunkConcurrency and
\* max_attempts in 1..MaxChunkAttempts
MaxRecipients == 5
MaxBatchSize == 3
MaxChunkConcurrency == 2
MaxChunkAttempts == 2

----------------------------------------------------------------------------
(* Values *)

NULL == -1
NO_ERROR == "NULL"
SEND_ERROR == "smtp error"
BULK_ERROR == "One or more recipient sends failed"

JobIds == 1..MaxJobs
Workers == 1..NumWorkers
Passes == (NumWorkers + 1)..(NumWorkers + MaxReq)
Procs == Workers \cup Passes

\* NotificationStatus: the members the delivery path assigns
PENDING == "pending"
PROCESSING == "processing"
SENT == "sent"
FAILED == "failed"
\* a row that has not been inserted
ABSENT == "absent"

\* priority: CreateNotificationSchema allows 0..10; two tiers are drawn
Priorities == {1, 5}
\* scheduled_at: Optional[datetime], None by default
Schedules == {NULL} \cup (0..MaxTime)
\* recipient lists as a request may carry them (blank entries included)
RecipientInputs == {<<" ">>, <<"a">>, <<"a", " ", "b">>}

VARIABLES
    now,        \* the clock (datetime.now / the database's now())
    store,      \* the committed rows of table notifications
    lock,       \* row locks: the process whose open transaction holds the row
    wpc,        \* each worker's position in main_loop
    wbatch,     \* each worker's batch_to_process (identifiers)
    wseq,       \* each worker's batch_to_process in the order it was fetched
    ppc,        \* each background run's position (and the request's outcome)
    pids,       \* each background run's notification_ids
    pnow,       \* `now` of process_notifications_async (service.py:175)
    loaded,     \* attempt_count as read when a pass took the job up
    disp,       \* per pass and job: the _send_one task and its transport calls
    taken,      \* (history) per job: how many passes have taken the job up
    wsleep,     \* each worker's asyncio.sleep in progress: its length in seconds
    intake,     \* per request: its items, the rows of its open transaction, their ids
    rpc, rattempts, rscript, ri, rcalls, rlast, \* one run of _retry
    rsleep,     \* sleep_for of the sleep in progress, in 1/SleepDen half-seconds
    mpc,        \* one call of send_email_to_many: its position / outcome
    minput,     \* its `recipients` argument
    mbsize, mconc, mattempts,   \* its batch_size, concurrency, max_attempts
    mbatches,   \* its `batches`
    mchunk      \* per batch: the _send_batch task (state, retry index, calls made)

vars == <<now, store, lock, wpc, wbatch, ppc, pids, pnow, loaded, disp, taken,
          wsleep, intake, wseq, rpc, rattempts, rscript, ri, rcalls, rlast, rsleep,
          mpc, minput, mbsize, mconc, mattempts, mbatches, mchunk>>
sysvars == <<now, store, lock, wpc, wbatch, ppc, pids, pnow, loaded, disp, taken,
             wsleep, intake, wseq>>
retryvars == <<rpc, rattempts, rscript, ri, rcalls, rlast, rsleep>>
manyvars == <<mpc, minput, mbsize, mconc, mattempts, mbatches, mchunk>>

NoRow == [status |-> ABSENT, priority |-> 0, scheduled_at |-> NULL,
          created_at |-> NULL, sent_at |-> NULL, attempt_count |-> 0,
          last_error |-> NO_ERROR,
          recipients |-> <<>>]

NoTask == [st |-> "none", fly |-> 0, queued |-> 0]

NoRequest == [items |-> <<>>, rows |-> <<>>, ids |-> {}]

Min(a, b) == IF a <= b THEN a ELSE b

\* ceil(n / d)
CeilDiv(n, d) == (n + d - 1) \div d

Exists(j) == store[j].status # ABSENT
FreeIds == {j \in 1..MaxQueued : ~Exists(j) /\ \A r \in Passes : j \notin intake[r].ids}

----------------------------------------------------------------------------
(* Intake: NotificationService *)

\* [str(r).strip() for r in recipients if str(r).strip()]
RECURSIVE StripBlank(_)
StripBlank(rs) ==
    IF rs = <<>> THEN <<>>
    ELSE IF Head(rs) = " " THEN StripBlank(Tail(rs))
         ELSE <<Head(rs)>> \o StripBlank(Tail(rs))

\* the `vals` of one inserted row; created_at is the server default now()
NewRow(recips, prio, sched) ==
    [status |-> PENDING, priority |-> prio, scheduled_at |-> sched,
     created_at |-> now, sent_at |-> NULL, attempt_count |-> 0,
     last_error |-> NO_ERROR,
     recipients |-> recips]

\* the first free run slot and the first free row identifiers
FreePass(r) == ppc[r] = "free" /\ \A q \in Passes : q < r => ppc[q] # "free"
FirstFree(n) == {j \in FreeIds : Cardinality({k \in FreeIds : k < j}) < n}

\* queue_notification: reject an empty recipient list, else insert one PENDING
\* row, commit, and schedule process_notifications_async([id])
QueueNotification(r, input, prio, sched) ==
    /\ FreePass(r)
    /\ LET recipients == StripBlank(input) IN
       IF recipients = <<>>
       THEN /\ ppc' = [ppc EXCEPT ![r] = "rejected"]
            /\ UNCHANGED <<store, pids>>
       ELSE /\ FreeIds # {}
            /\ LET id == CHOOSE j \in FirstFree(1) : TRUE IN
               /\ store' = [store EXCEPT ![id] = NewRow(recipients, prio, sched)]
               /\ pids' = [pids EXCEPT ![r] = {id}]
            /\ ppc' = [ppc EXCEPT ![r] = "scheduled"]
    /\ UNCHANGED <<now, lock, wpc, wbatch, pnow, loaded, disp, taken, wsleep, intake, wseq, retryvars, manyvars>>

\* queue_bulk_notifications: every item is validated before anything is
\* inserted; all rows go in one INSERT and one commit; one background run
BulkItems == [recipients : RecipientInputs, priority : Priorities, scheduled_at : Schedules]
\* requests that pass validation and leave the priority at its default, 0
ValidInputs == {input \in RecipientInputs : StripBlank(input) # <<>>}
DefaultItems == [recipients : ValidInputs, priority : {0}, scheduled_at : Schedules]

QueueBulkNotifications(r, items) ==
    /\ FreePass(r)
    /\ IF \E i \in 1..Len(items) : StripBlank(items[i].recipients) = <<>>
       THEN /\ ppc' = [ppc EXCEPT ![r] = "rejected"]
            /\ UNCHANGED <<store, pids>>
       ELSE /\ Cardinality(FreeIds) >= Len(items)
            /\ LET ids == FirstFree(Len(items))
                   idx(j) == Cardinality({k \in ids : k <= j})
               IN /\ store' = [j \in JobIds |->
                        IF j \in ids
                        THEN NewRow(StripBlank(items[idx(j)].recipients),
                                    items[idx(j)].priority,
                                    items[idx(j)].scheduled_at)
                        ELSE store[j]]
                  /\ pids' = [pids EXCEPT ![r] = ids]
            /\ ppc' = [ppc EXCEPT ![r] = "scheduled"]
    /\ UNCHANGED <<now, lock, wpc, wbatch, pnow, loaded, disp, taken, wsleep, intake, wseq, retryvars, manyvars>>

----------------------------------------------------------------------------
(* Intake, one action per stretch between two awaits of queue_notification  *)
(* (one item) and queue_bulk_notifications                                  *)

\* (mutant) `recipients` taken as they come
StripNothing(rs) == rs

\* the recipient list the handlers validate and store
Cleaned(rs) == StripBlank(rs)

\* service.py:44-62 / 85-110: an empty bulk request returns at once; a request
\* with an item without recipients raises AppBadRequestException; else the
\* INSERT ... RETURNING runs in the session's transaction
IInsert(r, items, bulk) ==
    /\ FreePass(r)
    /\ IF bulk /\ items = <<>>
       THEN /\ ppc' = [ppc EXCEPT ![r] = "returned"]
            /\ intake' = [intake EXCEPT ![r] = [NoRequest EXCEPT !.items = items]]
       ELSE IF \E i \in 1..Len(items) : Cleaned(items[i].recipients) = <<>>
       THEN /\ ppc' = [ppc EXCEPT ![r] = "rejected"]
            /\ intake' = [intake EXCEPT ![r] = [NoRequest EXCEPT !.items = items]]
       ELSE /\ Cardinality(FreeIds) >= Len(items)
            /\ LET ids == FirstFree(Len(items))
                   idx(j) == Cardinality({k \in ids : k <= j})
                   rows == [j \in ids |-> NewRow(Cleaned(items[idx(j)].recipients),
                                                 items[idx(j)].priority,
                                                 items[idx(j)].scheduled_at)]
               IN intake' = [intake EXCEPT ![r] =
                                [items |-> items, rows |-> rows, ids |-> ids]]
            /\ ppc' = [ppc EXCEPT ![r] = "inserted"]
    /\ UNCHANGED <<now, store, lock, wpc, wbatch, pids, pnow, loaded, disp, taken, wsleep, wseq,
                   retryvars, manyvars>>

\* service.py:65-67 / 112-114: the INSERT or the commit raised; the handler
\* rolls back and raises AppBadRequestException
IInsertFails(r) ==
    /\ ppc[r] = "inserted"
    /\ intake' = [intake EXCEPT ![r] = [NoRequest EXCEPT !.items = intake[r].items]]
    /\ ppc' = [ppc EXCEPT ![r] = "rejected"]
    /\ UNCHANGED <<now, store, lock, wpc, wbatch, pids, pnow, loaded, disp, taken, wsleep, wseq,
                   retryvars, manyvars>>

\* service.py:64 / 111: await self.db.commit(): the rows are in the table
ICommit(r) ==
    /\ ppc[r] = "inserted"
    /\ store' = [j \in JobIds |-> IF j \in intake[r].ids THEN intake[r].rows[j]
                                   ELSE store[j]]
    /\ intake' = [intake EXCEPT ![r].rows = <<>>]
    /\ ppc' = [ppc EXCEPT ![r] = "committed"]
    /\ UNCHANGED <<now, lock, wpc, wbatch, pids, pnow, loaded, disp, taken, wsleep, wseq,
                   retryvars, manyvars>>

\* (mutant) the background run scheduled before the commit
ScheduleAtInserted == "inserted"

\* where the handler stands when it schedules the background run
ScheduleAt == "committed"

\* service.py:69-75 / 116-121: add_task(process_notifications_async, ids) and
\* return
ISchedule(r) ==
    /\ ppc[r] = ScheduleAt
    /\ pids' = [pids EXCEPT ![r] = intake[r].ids]
    /\ ppc' = [ppc EXCEPT ![r] = "scheduled"]
    /\ UNCHANGED <<now, store, lock, wpc, wbatch, pnow, loaded, disp, taken, wsleep, intake, wseq,
                   retryvars, manyvars>>

----------------------------------------------------------------------------
(* The clock *)

TickTo(limit) ==
    /\ now < limit
    /\ now' = now + 1
    /\ UNCHANGED <<store, lock, wpc, wbatch, ppc, pids, pnow, loaded, disp, taken, wsleep, intake, wseq, retryvars, manyvars>>

----------------------------------------------------------------------------
(* The claim query of main_loop *)

\* WHERE status = PENDING AND scheduled_at <= now(); a NULL scheduled_at
\* compares as unknown and the row is not selected
Due(j) ==
    /\ store[j].status = PENDING
    /\ store[j].scheduled_at # NULL
    /\ store[j].scheduled_at <= now

\* (mutant) ORDER BY priority ASC, created_at ASC
SortsBeforeAscending(a, b) ==
    \/ store[a].priority < store[b].priority
    \/ /\ store[a].priority = store[b].priority
       /\ store[a].created_at < store[b].created_at

\* ORDER BY priority DESC, created_at ASC: a sorts strictly before b
SortsBefore(a, b) ==
    \/ store[a].priority > store[b].priority
    \/ /\ store[a].priority = store[b].priority
       /\ store[a].created_at < store[b].created_at

\* the due rows in the ORDER BY order; rows that tie come in any order
Sorted(S) ==
    {s \in [1..Cardinality(S) -> S] :
        /\ \A i, k \in 1..Cardinality(S) : i # k => s[i] # s[k]
        /\ \A i, k \in 1..Cardinality(S) : i < k => ~SortsBefore(s[k], s[i])}

\* (mutant) the claim query without its row locks: locked rows are taken too
RECURSIVE LockRowsNoSkip(_, _)
LockRowsNoSkip(s, limit) ==
    IF s = <<>> \/ limit = 0 THEN {}
    ELSE {Head(s)} \cup LockRowsNoSkip(Tail(s), limit - 1)

\* FOR UPDATE SKIP LOCKED under LIMIT: walk the sorted rows, pass over a row
\* another transaction has locked, stop once `limit` rows are taken
RECURSIVE LockRows(_, _)
LockRows(s, limit) ==
    IF s = <<>> \/ limit = 0 THEN {}
    ELSE IF lock[Head(s)] # 0 THEN LockRows(Tail(s), limit)
         ELSE {Head(s)} \cup LockRows(Tail(s), limit - 1)

\* the batches the claim query can return in the current state
ClaimDue(limit) ==
    {LockRows(s, limit) : s \in Sorted({j \in JobIds : Due(j)})}

----------------------------------------------------------------------------
(* The poll loop: main_loop *)

\* WORKER_SLEEP_INTERVAL, in seconds
WORKER_SLEEP_INTERVAL == 10

\* lines 87-89: SELECT ... WHERE id IN (sub-query) has no ORDER BY of its own:
\* the rows of the batch come back in any order
FetchOrders(batch) ==
    {s \in [1..Cardinality(batch) -> batch] :
        \A i, k \in 1..Cardinality(batch) : i # k => s[i] # s[k]}

\* lines 70-93: run the claim query; the selected rows stay locked by the
\* session's transaction; an empty batch sends the loop to its interval sleep
WClaim(w) ==
    /\ wpc[w] = "poll"
    /\ \E batch \in ClaimDue(BATCH_SIZE) :
        /\ wbatch' = [wbatch EXCEPT ![w] = batch]
        /\ lock' = [j \in JobIds |-> IF j \in batch THEN w ELSE lock[j]]
        /\ loaded' = [loaded EXCEPT ![w] =
                        [j \in JobIds |-> IF j \in batch THEN store[j].attempt_count
                                          ELSE loaded[w][j]]]
        /\ wpc' = [wpc EXCEPT ![w] = IF batch = {} THEN "idle_sleep" ELSE "claimed"]
        /\ wsleep' = [wsleep EXCEPT ![w] = IF batch = {} THEN WORKER_SLEEP_INTERVAL ELSE 0]
        /\ \E seq \in FetchOrders(batch) : wseq' = [wseq EXCEPT ![w] = seq]
    /\ UNCHANGED <<now, store, ppc, pids, pnow, disp, taken, intake, retryvars, manyvars>>

\* lines 95-102: set PROCESSING on every row of the batch and commit (the
\* locks go with the commit), then process_batch creates one _send_one task
\* per notification
WMarkProcessing(w) ==
    /\ wpc[w] = "claimed"
    /\ store' = [j \in JobIds |->
                    IF j \in wbatch[w] THEN [store[j] EXCEPT !.status = PROCESSING]
                    ELSE store[j]]
    /\ lock' = [j \in JobIds |-> IF lock[j] = w THEN 0 ELSE lock[j]]
    /\ disp' = [disp EXCEPT ![w] =
                    [j \in JobIds |-> IF j \in wbatch[w]
                                      THEN [st |-> "wait", fly |-> 0, queued |-> 0]
                                      ELSE disp[w][j]]]
    /\ wpc' = [wpc EXCEPT ![w] = "dispatch"]
    /\ taken' = [j \in JobIds |-> IF j \in wbatch[w] THEN taken[j] + 1 ELSE taken[j]]
    /\ UNCHANGED <<now, wbatch, ppc, pids, pnow, loaded, wsleep, intake, wseq, retryvars, manyvars>>

\* (mutant) a loop that does not come back from its error sleep
WWakeIdleOnly(w) ==
    /\ wpc[w] = "idle_sleep"
    /\ wpc' = [wpc EXCEPT ![w] = "poll"]
    /\ wsleep' = [wsleep EXCEPT ![w] = 0]
    /\ UNCHANGED <<now, store, lock, wbatch, ppc, pids, pnow, loaded, disp, taken, intake, wseq, retryvars, manyvars>>

\* line 92 / line 106: the sleep is over, the loop polls again
WWake(w) ==
    /\ wpc[w] \in {"idle_sleep", "error_sleep"}
    /\ wpc' = [wpc EXCEPT ![w] = "poll"]
    /\ wsleep' = [wsleep EXCEPT ![w] = 0]
    /\ UNCHANGED <<now, store, lock, wbatch, ppc, pids, pnow, loaded, disp, taken, intake, wseq, retryvars, manyvars>>

----------------------------------------------------------------------------
(* The dispatcher: process_batch._send_one and                             *)
(* process_notifications_async._send_one under their semaphore             *)

\* (mutant) a slot that is not given back when its _send_one ends
RunningNeverReleased(p) == {j \in JobIds : disp[p][j].st \in {"run", "ok", "fail"}}

\* the _send_one tasks inside `async with sem`
Running(p) == {j \in JobIds : disp[p][j].st = "run"}

\* (mutant) _send_one without `async with sem`
SemAlwaysFree(p) == TRUE

\* asyncio.Semaphore(ceiling): a slot is free
SemFree(p) == Cardinality(Running(p)) < MAX_CONCURRENCY

\* The transport calls a _send_one task starts once it holds its slot.
\* Worker: asyncio.gather of one send_email per recipient, all started at once.
\* Background run: send_email_to_many cuts the recipients into chunks of
\* batch_size and starts at most `concurrency` chunk sends, the rest queue on
\* the chunk semaphore.
StartCalls(p, j) ==
    LET n == Len(store[j].recipients) IN
    IF p \in Workers
    THEN [st |-> "run", fly |-> n, queued |-> 0]
    ELSE LET chunks == CeilDiv(n, CHUNK_SIZE)
             first == Min(chunks, CHUNK_CONCURRENCY)
         IN [st |-> "run", fly |-> first, queued |-> chunks - first]

Acquire(p, j) ==
    /\ disp[p][j].st = "wait"
    /\ SemFree(p)
    /\ disp' = [disp EXCEPT ![p][j] = StartCalls(p, j)]
    /\ UNCHANGED <<now, store, lock, wpc, wbatch, ppc, pids, pnow, loaded, taken, wsleep, intake, wseq, retryvars, manyvars>>

\* (mutant) an `except` branch that reports the job as sent
OnSendFailureOk == "ok"

\* (mutant) _send_one without its try/except: the exception leaves the gather
OnSendFailureRaise == "raise"

\* `except Exception` of _send_one: a failed send becomes a failure result
OnSendFailure == "fail"

\* One transport call (send_email or a chunk send, retries included) ends.
\* A queued chunk takes the freed chunk slot.  While the task is running, the
\* first failure ends the gather at once and decides the result, calls still
\* in flight are left running; success is decided when the last call ends.
TransportDone(p, j, ok) ==
    /\ disp[p][j].fly > 0
    /\ LET t == disp[p][j]
           fly == IF t.queued > 0 THEN t.fly ELSE t.fly - 1
           queued == IF t.queued > 0 THEN t.queued - 1 ELSE 0
           st == IF t.st # "run" THEN t.st
                 ELSE IF ~ok THEN OnSendFailure
                 ELSE IF fly = 0 /\ queued = 0 THEN "ok"
                 ELSE "run"
       IN /\ disp' = [disp EXCEPT ![p][j] = [st |-> st, fly |-> fly, queued |-> queued]]
          /\ IF st = "raise" /\ p \in Workers
             THEN /\ wpc' = [wpc EXCEPT ![p] = "error_sleep"]
                  /\ wbatch' = [wbatch EXCEPT ![p] = {}]
                  /\ wsleep' = [wsleep EXCEPT ![p] = WORKER_SLEEP_INTERVAL * 2]
                  /\ wseq' = [wseq EXCEPT ![p] = <<>>]
             ELSE UNCHANGED <<wpc, wbatch, wsleep, wseq>>
          /\ IF st = "raise" /\ p \in Passes
             THEN ppc' = [ppc EXCEPT ![p] = "dead"]
             ELSE UNCHANGED ppc
    /\ UNCHANGED <<now, store, lock, pids, pnow, loaded, taken, intake, retryvars, manyvars>>

\* the pass is over: its results are dropped with it; transport calls the
\* gather left running go on
Dropped(p, batch) ==
    [j \in JobIds |-> IF j \in batch THEN [disp[p][j] EXCEPT !.st = "none"] ELSE disp[p][j]]

Forgotten(p, batch) ==
    [j \in JobIds |-> IF j \in batch THEN NULL ELSE loaded[p][j]]

\* asyncio.gather(*[_send_one(n) for n in batch]) has returned
Gathered(p, batch) == \A j \in batch : disp[p][j].st \in {"ok", "fail"}

----------------------------------------------------------------------------
(* The worker's result write: process_batch lines 48-61 *)

\* (mutant) a success write that leaves last_error as it is in the table
WorkerResultRowKeepsError(w, j) ==
    IF disp[w][j].st = "ok"
    THEN [store[j] EXCEPT !.attempt_count = loaded[w][j] + 1,
                          !.status = SENT,
                          !.sent_at = now]
    ELSE [store[j] EXCEPT !.attempt_count = loaded[w][j] + 1,
                          !.status = FAILED,
                          !.last_error = SEND_ERROR]

\* (mutant) a result write without `notification.attempt_count += 1`
WorkerResultRowNoIncrement(w, j) ==
    IF disp[w][j].st = "ok"
    THEN [store[j] EXCEPT !.attempt_count = loaded[w][j],
                          !.status = SENT,
                          !.sent_at = now,
                          !.last_error = NO_ERROR]
    ELSE [store[j] EXCEPT !.attempt_count = loaded[w][j],
                          !.status = FAILED,
                          !.last_error = SEND_ERROR]

\* (mutant) a result write that takes a row already SENT for a duplicate and
\* marks it FAILED
WorkerResultRowOnce(w, j) ==
    IF disp[w][j].st = "ok" /\ store[j].status # SENT
    THEN [store[j] EXCEPT !.attempt_count = loaded[w][j] + 1,
                          !.status = SENT,
                          !.sent_at = now,
                          !.last_error = NO_ERROR]
    ELSE [store[j] EXCEPT !.attempt_count = loaded[w][j] + 1,
                          !.status = FAILED,
                          !.last_error = SEND_ERROR]

\* the row as the session's flush writes it: attempt_count from the loaded
\* object, sent_at only on success
WorkerResultRow(w, j) ==
    IF disp[w][j].st = "ok"
    THEN [store[j] EXCEPT !.attempt_count = loaded[w][j] + 1,
                          !.status = SENT,
                          !.sent_at = now,
                          !.last_error = NO_ERROR]
    ELSE [store[j] EXCEPT !.attempt_count = loaded[w][j] + 1,
                          !.status = FAILED,
                          !.last_error = SEND_ERROR]

\* (mutant) a loop that sleeps the interval after every pass
WAggregateThenSleep(w) ==
    /\ wpc[w] = "dispatch"
    /\ Gathered(w, wbatch[w])
    /\ \A j \in wbatch[w] : lock[j] = 0
    /\ store' = [j \in JobIds |-> IF j \in wbatch[w] THEN WorkerResultRow(w, j) ELSE store[j]]
    /\ wbatch' = [wbatch EXCEPT ![w] = {}]
    /\ wseq' = [wseq EXCEPT ![w] = <<>>]
    /\ disp' = [disp EXCEPT ![w] = Dropped(w, wbatch[w])]
    /\ loaded' = [loaded EXCEPT ![w] = Forgotten(w, wbatch[w])]
    /\ wpc' = [wpc EXCEPT ![w] = "idle_sleep"]
    /\ wsleep' = [wsleep EXCEPT ![w] = WORKER_SLEEP_INTERVAL]
    /\ UNCHANGED <<now, lock, ppc, pids, pnow, taken, intake, retryvars, manyvars>>

\* process_batch has gathered its results: lines 48-62 write them and commit,
\* and the loop polls again at once
WAggregate(w) ==
    /\ wpc[w] = "dispatch"
    /\ Gathered(w, wbatch[w])
    /\ \A j \in wbatch[w] : lock[j] = 0
    /\ store' = [j \in JobIds |-> IF j \in wbatch[w] THEN WorkerResultRow(w, j) ELSE store[j]]
    /\ wbatch' = [wbatch EXCEPT ![w] = {}]
    /\ wseq' = [wseq EXCEPT ![w] = <<>>]
    /\ disp' = [disp EXCEPT ![w] = Dropped(w, wbatch[w])]
    /\ loaded' = [loaded EXCEPT ![w] = Forgotten(w, wbatch[w])]
    /\ wpc' = [wpc EXCEPT ![w] = "poll"]
    /\ UNCHANGED <<now, lock, ppc, pids, pnow, taken, wsleep, intake, retryvars, manyvars>>

\* `except Exception` of main_loop (lines 104-106): a database error in the
\* claim query, in the PROCESSING commit or in the result commit ends the
\* pass; the session closes, its transaction is rolled back
WClaimError(w) ==
    /\ wpc[w] = "poll"
    /\ wpc' = [wpc EXCEPT ![w] = "error_sleep"]
    /\ wsleep' = [wsleep EXCEPT ![w] = WORKER_SLEEP_INTERVAL * 2]
    /\ UNCHANGED <<now, store, lock, wbatch, ppc, pids, pnow, loaded, disp, taken, intake, wseq, retryvars, manyvars>>

WMarkError(w) ==
    /\ wpc[w] = "claimed"
    /\ lock' = [j \in JobIds |-> IF lock[j] = w THEN 0 ELSE lock[j]]
    /\ wbatch' = [wbatch EXCEPT ![w] = {}]
    /\ wseq' = [wseq EXCEPT ![w] = <<>>]
    /\ loaded' = [loaded EXCEPT ![w] = Forgotten(w, wbatch[w])]
    /\ wpc' = [wpc EXCEPT ![w] = "error_sleep"]
    /\ wsleep' = [wsleep EXCEPT ![w] = WORKER_SLEEP_INTERVAL * 2]
    /\ UNCHANGED <<now, store, ppc, pids, pnow, disp, taken, intake, retryvars, manyvars>>

WAggregateError(w) ==
    /\ wpc[w] = "dispatch"
    /\ Gathered(w, wbatch[w])
    /\ wbatch' = [wbatch EXCEPT ![w] = {}]
    /\ wseq' = [wseq EXCEPT ![w] = <<>>]
    /\ disp' = [disp EXCEPT ![w] = Dropped(w, wbatch[w])]
    /\ loaded' = [loaded EXCEPT ![w] = Forgotten(w, wbatch[w])]
    /\ wpc' = [wpc EXCEPT ![w] = "error_sleep"]
    /\ wsleep' = [wsleep EXCEPT ![w] = WORKER_SLEEP_INTERVAL * 2]
    /\ UNCHANGED <<now, store, lock, ppc, pids, pnow, taken, intake, retryvars, manyvars>>

\* the worker process dies between the PROCESSING commit (line 99) and the
\* result commit (line 61): its tasks and transport calls die with it, the
\* rows stay as committed; wbatch keeps the batch it died with
WCrash(w) ==
    /\ wpc[w] = "dispatch"
    /\ wpc' = [wpc EXCEPT ![w] = "crashed"]
    /\ disp' = [disp EXCEPT ![w] = [j \in JobIds |-> NoTask]]
    /\ loaded' = [loaded EXCEPT ![w] = [j \in JobIds |-> NULL]]
    /\ UNCHANGED <<now, store, lock, wbatch, ppc, pids, pnow, taken, wsleep, intake, wseq,
                   retryvars, manyvars>>

----------------------------------------------------------------------------
(* The background runner: process_notifications_async *)

\* lines 133-171: select the rows by id (no status filter, no lock) and create
\* one _send_one task per row
PFetch(r) ==
    /\ ppc[r] = "scheduled"
    /\ disp' = [disp EXCEPT ![r] =
                    [j \in JobIds |-> IF j \in pids[r]
                                      THEN [st |-> "wait", fly |-> 0, queued |-> 0]
                                      ELSE disp[r][j]]]
    /\ loaded' = [loaded EXCEPT ![r] =
                    [j \in JobIds |-> IF j \in pids[r] THEN store[j].attempt_count
                                      ELSE loaded[r][j]]]
    /\ ppc' = [ppc EXCEPT ![r] = "dispatch"]
    /\ taken' = [j \in JobIds |-> IF j \in pids[r] THEN taken[j] + 1 ELSE taken[j]]
    /\ UNCHANGED <<now, store, lock, wpc, wbatch, pids, pnow, wsleep, intake, wseq, retryvars, manyvars>>

success_ids(r) == {j \in pids[r] : disp[r][j].st = "ok"}
failure_ids(r) == {j \in pids[r] : disp[r][j].st = "fail"}

\* lines 178-189: UPDATE ... WHERE id IN success_ids; the rows stay locked by
\* the run's transaction until it commits
PUpdateSuccess(r) ==
    /\ ppc[r] = "dispatch"
    /\ Gathered(r, pids[r])
    /\ success_ids(r) # {}
    /\ \A j \in success_ids(r) : lock[j] = 0
    /\ lock' = [j \in JobIds |-> IF j \in success_ids(r) THEN r ELSE lock[j]]
    /\ pnow' = [pnow EXCEPT ![r] = now]
    /\ ppc' = [ppc EXCEPT ![r] = "updated_success"]
    /\ UNCHANGED <<now, store, wpc, wbatch, pids, loaded, disp, taken, wsleep, intake, wseq, retryvars, manyvars>>

\* lines 191-201: UPDATE ... WHERE id IN failure_ids
PUpdateFailure(r) ==
    /\ \/ ppc[r] = "updated_success"
       \/ ppc[r] = "dispatch" /\ Gathered(r, pids[r]) /\ success_ids(r) = {}
    /\ failure_ids(r) # {}
    /\ \A j \in failure_ids(r) : lock[j] = 0
    /\ lock' = [j \in JobIds |-> IF j \in failure_ids(r) THEN r ELSE lock[j]]
    /\ pnow' = [pnow EXCEPT ![r] = IF ppc[r] = "dispatch" THEN now ELSE pnow[r]]
    /\ ppc' = [ppc EXCEPT ![r] = "updated_failure"]
    /\ UNCHANGED <<now, store, wpc, wbatch, pids, loaded, disp, taken, wsleep, intake, wseq, retryvars, manyvars>>

\* (mutant) the success UPDATE without sent_at
RunResultRowNoSentAt(r, j) ==
    IF disp[r][j].st = "ok"
    THEN [store[j] EXCEPT !.status = SENT,
                          !.attempt_count = store[j].attempt_count + 1,
                          !.last_error = NO_ERROR]
    ELSE [store[j] EXCEPT !.status = FAILED,
                          !.attempt_count = store[j].attempt_count + 1,
                          !.last_error = BULK_ERROR]

\* the row as the run's UPDATE writes it: attempt_count + 1 is computed by the
\* database on the row it has locked
RunResultRow(r, j) ==
    IF disp[r][j].st = "ok"
    THEN [store[j] EXCEPT !.status = SENT,
                          !.sent_at = pnow[r],
                          !.attempt_count = store[j].attempt_count + 1,
                          !.last_error = NO_ERROR]
    ELSE [store[j] EXCEPT !.status = FAILED,
                          !.attempt_count = store[j].attempt_count + 1,
                          !.last_error = BULK_ERROR]

\* line 203: commit; the updated rows become visible and their locks go
PCommit(r) ==
    /\ \/ ppc[r] = "updated_failure"
       \/ ppc[r] = "updated_success" /\ failure_ids(r) = {}
    /\ store' = [j \in JobIds |-> IF lock[j] = r THEN RunResultRow(r, j) ELSE store[j]]
    /\ lock' = [j \in JobIds |-> IF lock[j] = r THEN 0 ELSE lock[j]]
    /\ ppc' = [ppc EXCEPT ![r] = "done"]
    /\ disp' = [disp EXCEPT ![r] = Dropped(r, pids[r])]
    /\ loaded' = [loaded EXCEPT ![r] = Forgotten(r, pids[r])]
    /\ pnow' = [pnow EXCEPT ![r] = NULL]
    /\ UNCHANGED <<now, wpc, wbatch, pids, taken, wsleep, intake, wseq, retryvars, manyvars>>

----------------------------------------------------------------------------
(* The Result Aggregator invoked again with the results it has: the result  *)
(* write of process_batch (lines 48-61) and of process_notifications_async  *)
(* (lines 173-203), without the end of the pass                             *)

Applied(pc) == IF pc = "dispatch" THEN "applied" ELSE "applied_twice"

\* process_batch lines 48-61 over `results`; the objects keep the attempt
\* count they were given
ApplyWorker(w) ==
    /\ wpc[w] \in {"dispatch", "applied"}
    /\ Gathered(w, wbatch[w])
    /\ store' = [j \in JobIds |-> IF j \in wbatch[w] THEN WorkerResultRow(w, j) ELSE store[j]]
    /\ loaded' = [loaded EXCEPT ![w] =
                    [j \in JobIds |-> IF j \in wbatch[w] THEN loaded[w][j] + 1
                                      ELSE loaded[w][j]]]
    /\ wpc' = [wpc EXCEPT ![w] = Applied(wpc[w])]
    /\ UNCHANGED <<now, lock, wbatch, ppc, pids, pnow, disp, taken, wsleep, intake, wseq, retryvars, manyvars>>

\* process_notifications_async lines 173-201: `now` and the two UPDATEs
ApplyRunUpdate(r) ==
    /\ ppc[r] \in {"dispatch", "applied"}
    /\ Gathered(r, pids[r])
    /\ pnow[r] = NULL
    /\ lock' = [j \in JobIds |-> IF j \in pids[r] THEN r ELSE lock[j]]
    /\ pnow' = [pnow EXCEPT ![r] = now]
    /\ UNCHANGED <<now, store, wpc, wbatch, ppc, pids, loaded, disp, taken, wsleep, intake, wseq, retryvars, manyvars>>

\* process_notifications_async line 203: commit
ApplyRunCommit(r) ==
    /\ ppc[r] \in {"dispatch", "applied"}
    /\ pnow[r] # NULL
    /\ store' = [j \in JobIds |-> IF lock[j] = r THEN RunResultRow(r, j) ELSE store[j]]
    /\ lock' = [j \in JobIds |-> IF lock[j] = r THEN 0 ELSE lock[j]]
    /\ pnow' = [pnow EXCEPT ![r] = NULL]
    /\ ppc' = [ppc EXCEPT ![r] = Applied(ppc[r])]
    /\ UNCHANGED <<now, wpc, wbatch, pids, loaded, disp, taken, wsleep, intake, wseq, retryvars, manyvars>>

----------------------------------------------------------------------------
(* The retrier: _retry(coro_factory, attempts) *)

\* (mutant) the retrier gives up one attempt early
LastAttemptEarly == ri >= rattempts - 2

\* `if i == attempts - 1: break`
LastAttempt == ri = rattempts - 1

\* the defaults of _retry, in half-seconds: base_delay = 0.5, max_delay = 4.0
BASE_DELAY == 1
MAX_DELAY == 8

\* min(max_delay, base_delay * (2 ** i))
Backoff(i) == Min(MAX_DELAY, BASE_DELAY * (2 ^ i))

\* sleep_for = Backoff(i) * (0.5 + random.random()) with random.random() =
\* k / JitterSteps, as a number of 1/SleepDen half-seconds
SleepDen == 2 * JitterSteps
SleepFor(i, k) == Backoff(i) * (JitterSteps + 2 * k)

\* `for i in range(attempts)`: call the operation; return on success; on an
\* exception keep it as last_exc and break after the last attempt, else sleep
RetryCall ==
    /\ rpc = "loop"
    /\ ri < rattempts
    /\ rcalls' = rcalls + 1
    /\ IF rscript[ri + 1]
       THEN /\ rpc' = "returned"
            /\ UNCHANGED <<rlast, rsleep>>
       ELSE /\ rlast' = rcalls + 1
            /\ IF LastAttempt
               THEN rpc' = "raised" /\ UNCHANGED rsleep
               ELSE /\ rpc' = "sleep"
                    /\ \E k \in 0..(JitterSteps - 1) : rsleep' = SleepFor(ri, k)
    /\ UNCHANGED <<ri, rattempts, rscript, sysvars, manyvars>>

\* await asyncio.sleep(sleep_for) is over: the next iteration
RetrySleep ==
    /\ rpc = "sleep"
    /\ ri' = ri + 1
    /\ rpc' = "loop"
    /\ rsleep' = NULL
    /\ UNCHANGED <<rcalls, rlast, rattempts, rscript, sysvars, manyvars>>

\* range(attempts) is empty: `raise last_exc` with last_exc = None
RetryEmpty ==
    /\ rpc = "loop"
    /\ ri >= rattempts
    /\ rpc' = "raised"
    /\ UNCHANGED <<ri, rcalls, rlast, rsleep, rattempts, rscript, sysvars, manyvars>>

----------------------------------------------------------------------------
(* The bulk sender: send_email_to_many(recipients, batch_size, concurrency, *)
(* max_attempts) with background_tasks = None                               *)

\* range(start, stop, step)
RECURSIVE Range(_, _, _)
Range(start, stop, step) ==
    IF start >= stop THEN <<>>
    ELSE <<start>> \o Range(start + step, stop, step)

\* (mutant) the slice recips[i : i + batch_size - 1]
SliceShort(xs, i, b) == SubSeq(xs, i + 1, Min(i + b - 1, Len(xs)))

\* the slice recips[i : i + batch_size]
Slice(xs, i, b) == SubSeq(xs, i + 1, Min(i + b, Len(xs)))

\* [recips[i : i + batch_size] for i in range(0, len(recips), batch_size)]
Batches(recips, b) ==
    LET starts == Range(0, Len(recips), b)
    IN [k \in 1..Len(starts) |-> Slice(recips, starts[k], b)]

Chunks == DOMAIN mchunk
NewChunk == [st |-> "wait", i |-> 0, calls |-> 0]

\* lines 113-128: strip the recipients, return at once when none is left,
\* else cut the batches and gather one _send_batch task per batch
MStart ==
    /\ mpc = "start"
    /\ LET recips == StripBlank(minput) IN
       IF recips = <<>>
       THEN /\ mpc' = "returned"
            /\ UNCHANGED <<mbatches, mchunk>>
       ELSE /\ mbatches' = Batches(recips, mbsize)
            /\ mchunk' = [k \in 1..Len(Batches(recips, mbsize)) |-> NewChunk]
            /\ mpc' = "gather"
    /\ UNCHANGED <<minput, mbsize, mconc, mattempts, sysvars, retryvars>>

\* (mutant) a slot held for the transport call only, given back for the sleep
HoldingWhileCalling == {k \in Chunks : mchunk[k].st = "call"}

\* the _send_batch tasks inside `async with sem`
Holding == {k \in Chunks : mchunk[k].st \in {"call", "sleep"}}

\* `async with sem` of _send_batch: the task takes a free slot
MAcquire(c) ==
    /\ mchunk[c].st = "wait"
    /\ Cardinality(Holding) < mconc
    /\ mchunk' = [mchunk EXCEPT ![c].st = "call"]
    /\ UNCHANGED <<mpc, minput, mbsize, mconc, mattempts, mbatches, sysvars, retryvars>>

\* (mutant) a gather that cancels the other tasks when one raises
SiblingsCancelled(chunks, c) ==
    [k \in DOMAIN chunks |->
        IF k # c /\ chunks[k].st \in {"wait", "call", "sleep"}
        THEN [chunks[k] EXCEPT !.st = "cancelled"]
        ELSE chunks[k]]

\* asyncio.gather without return_exceptions: the first exception goes to the
\* awaiting caller, the other tasks are not cancelled and run on
SiblingsOnFailure(chunks, c) == chunks

\* one transport call of batch c inside its _retry: success ends the task;
\* a failure on the last attempt raises out of the task (and, the first time,
\* out of the gather); any other failure sleeps.  Leaving the task releases
\* its slot.  The gather returns when the last task has ended in success.
MCall(c, ok) ==
    /\ mchunk[c].st = "call"
    /\ LET t == [mchunk[c] EXCEPT !.calls = @ + 1]
           new == IF ok THEN [t EXCEPT !.st = "ok"]
                  ELSE IF t.i = mattempts - 1 THEN [t EXCEPT !.st = "fail"]
                  ELSE [t EXCEPT !.st = "sleep"]
           chunks == [mchunk EXCEPT ![c] = new]
           after == IF new.st = "fail" THEN SiblingsOnFailure(chunks, c) ELSE chunks
       IN /\ mchunk' = after
          /\ mpc' = IF mpc = "gather" /\ new.st = "fail" THEN "raised"
                    ELSE IF mpc = "gather" /\ \A k \in Chunks : after[k].st = "ok"
                         THEN "returned"
                    ELSE mpc
    /\ UNCHANGED <<minput, mbsize, mconc, mattempts, mbatches, sysvars, retryvars>>

\* the backoff sleep of batch c is over: the next attempt
MSleepDone(c) ==
    /\ mchunk[c].st = "sleep"
    /\ mchunk' = [mchunk EXCEPT ![c] = [@ EXCEPT !.st = "call", !.i = @ + 1]]
    /\ UNCHANGED <<mpc, minput, mbsize, mconc, mattempts, mbatches, sysvars, retryvars>>

----------------------------------------------------------------------------
(* Specifications *)

SysInit ==
    /\ now = 0
    /\ store = [j \in JobIds |-> NoRow]
    /\ lock = [j \in JobIds |-> 0]
    /\ wpc = [w \in Workers |-> "poll"]
    /\ wbatch = [w \in Workers |-> {}]
    /\ ppc = [r \in Passes |-> "free"]
    /\ pids = [r \in Passes |-> {}]
    /\ pnow = [r \in Passes |-> NULL]
    /\ loaded = [p \in Procs |-> [j \in JobIds |-> NULL]]
    /\ disp = [p \in Procs |-> [j \in JobIds |-> NoTask]]
    /\ taken = [j \in JobIds |-> 0]
    /\ wsleep = [w \in Workers |-> 0]
    /\ wseq = [w \in Workers |-> <<>>]
    /\ intake = [r \in Passes |-> NoRequest]

RetryOff ==
    /\ rpc = "off"
    /\ rattempts = 0
    /\ rscript = <<>>
    /\ ri = 0
    /\ rcalls = 0
    /\ rlast = NULL
    /\ rsleep = NULL

ManyOff ==
    /\ mpc = "off"
    /\ minput = <<>>
    /\ mbsize = 0
    /\ mconc = 0
    /\ mattempts = 0
    /\ mbatches = <<>>
    /\ mchunk = <<>>

Init == SysInit /\ RetryOff /\ ManyOff

Next ==
    \/ \E r \in Passes, input \in ValidInputs, sched \in Schedules :
          QueueNotification(r, input, 0, sched)
    \/ \E r \in Passes, n \in 1..MaxQueued : \E items \in [1..n -> DefaultItems] :
          QueueBulkNotifications(r, items)
    \/ TickTo(MaxTime)
    \/ \E w \in Workers : WClaim(w)
    \/ \E w \in Workers : WMarkProcessing(w)
    \/ \E w \in Workers : WAggregate(w)
    \/ \E w \in Workers : WWake(w)
    \/ \E r \in Passes : PFetch(r)
    \/ \E r \in Passes : PUpdateSuccess(r)
    \/ \E r \in Passes : PUpdateFailure(r)
    \/ \E r \in Passes : PCommit(r)
    \/ \E p \in Procs, j \in JobIds : Acquire(p, j)
    \/ \E p \in Procs, j \in JobIds, ok \in BOOLEAN : TransportDone(p, j, ok)

Spec == Init /\ [][Next]_vars

\* the same system in a run without crashes: the event loop of every process
\* runs each coroutine that can run; database and transport calls end.  The
\* jobs of the requests are due at once or unscheduled.
LiveInputs == {<<"a">>, <<"a", " ", "b">>}
LiveItems == [recipients : LiveInputs, priority : {0}, scheduled_at : {NULL, 0}]

LiveNext ==
    \/ \E r \in Passes, input \in LiveInputs, sched \in {NULL, 0} :
          QueueNotification(r, input, 0, sched)
    \/ \E r \in Passes, n \in 1..MaxQueued : \E items \in [1..n -> LiveItems] :
          QueueBulkNotifications(r, items)
    \/ \E w \in Workers : WClaim(w)
    \/ \E w \in Workers : WMarkProcessing(w)
    \/ \E w \in Workers : WAggregate(w)
    \/ \E w \in Workers : WWake(w)
    \/ \E r \in Passes : PFetch(r)
    \/ \E r \in Passes : PUpdateSuccess(r)
    \/ \E r \in Passes : PUpdateFailure(r)
    \/ \E r \in Passes : PCommit(r)
    \/ \E p \in Procs, j \in JobIds : Acquire(p, j)
    \/ \E p \in Procs, j \in JobIds, ok \in BOOLEAN : TransportDone(p, j, ok)

PStep(r) == PFetch(r) \/ PUpdateSuccess(r) \/ PUpdateFailure(r) \/ PCommit(r)

Fair ==
    /\ \A w \in Workers :
          WF_vars(WClaim(w) \/ WMarkProcessing(w) \/ WAggregate(w) \/ WWake(w))
    /\ \A r \in Passes : WF_vars(PStep(r))
    /\ \A p \in Procs :
          /\ WF_vars(\E j \in JobIds : Acquire(p, j))
          /\ WF_vars(\E j \in JobIds, ok \in BOOLEAN : TransportDone(p, j, ok))

SpecLive == Init /\ [][LiveNext]_vars /\ Fair

\* one run of _retry for every attempts and every behaviour of the operation
RetryInit ==
    /\ SysInit
    /\ rpc = "loop"
    /\ rattempts \in 0..MaxAttempts
    /\ rscript \in [1..rattempts -> BOOLEAN]
    /\ ri = 0
    /\ rcalls = 0
    /\ rlast = NULL
    /\ rsleep = NULL
    /\ ManyOff

RetryNext == RetryCall \/ RetrySleep \/ RetryEmpty

SpecRetry == RetryInit /\ [][RetryNext]_vars

\* the claim query alone: rows queued by earlier requests (their background
\* runs have not started) and the workers' claim transactions
ClaimRows ==
    {row \in [status : {PENDING}, priority : Priorities,
              scheduled_at : {NULL, 0, MaxCreated + 1},
              created_at : 0..MaxCreated, sent_at : {NULL}, attempt_count : {0},
              last_error : {NO_ERROR}, recipients : {<<"a">>}] : TRUE}

ClaimInit ==
    /\ now = MaxCreated
    /\ store \in [JobIds -> ClaimRows]
    /\ \A j, k \in JobIds : j < k => store[j].created_at <= store[k].created_at
    /\ lock = [j \in JobIds |-> 0]
    /\ wpc = [w \in Workers |-> "poll"]
    /\ wbatch = [w \in Workers |-> {}]
    /\ ppc = [r \in Passes |-> "free"]
    /\ pids = [r \in Passes |-> {}]
    /\ pnow = [r \in Passes |-> NULL]
    /\ loaded = [p \in Procs |-> [j \in JobIds |-> NULL]]
    /\ disp = [p \in Procs |-> [j \in JobIds |-> NoTask]]
    /\ taken = [j \in JobIds |-> 0]
    /\ wsleep = [w \in Workers |-> 0]
    /\ wseq = [w \in Workers |-> <<>>]
    /\ intake = [r \in Passes |-> NoRequest]
    /\ RetryOff
    /\ ManyOff

ClaimNext ==
    \/ TickTo(MaxCreated + 1)
    \/ \E w \in Workers : WClaim(w)
    \/ \E w \in Workers : WMarkProcessing(w)
    \/ \E w \in Workers : WMarkError(w)
    \/ \E w \in Workers : WWake(w)

SpecClaim == ClaimInit /\ [][ClaimNext]_vars

\* the system of SpecLive, without fairness, with workers that may die in
\* the middle of a pass
CrashNext ==
    \/ LiveNext
    \/ \E w \in Workers : WCrash(w)

SpecCrash == Init /\ [][CrashNext]_vars

\* the intake path step by step, with every request the schema admits within
\* the bounds (blank recipients included) and failing inserts, and the
\* background runs it schedules
IntakeNext ==
    \/ \E r \in Passes, item \in BulkItems : IInsert(r, <<item>>, FALSE)
    \/ \E r \in Passes, n \in 0..MaxQueued : \E items \in [1..n -> BulkItems] :
          IInsert(r, items, TRUE)
    \/ \E r \in Passes : IInsertFails(r)
    \/ \E r \in Passes : ICommit(r)
    \/ \E r \in Passes : ISchedule(r)
    \/ TickTo(MaxTime)
    \/ \E r \in Passes : PFetch(r)
    \/ \E r \in Passes : PUpdateSuccess(r)
    \/ \E r \in Passes : PUpdateFailure(r)
    \/ \E r \in Passes : PCommit(r)
    \/ \E r \in Passes, j \in JobIds : Acquire(r, j)
    \/ \E r \in Passes, j \in JobIds, ok \in BOOLEAN : TransportDone(r, j, ok)

SpecIntake == Init /\ [][IntakeNext]_vars

\* the poll loop of every worker over rows queued earlier, with database
\* errors in the claim query, in the PROCESSING commit and in the result
\* commit.  The event loop runs every coroutine that can run; every sleep,
\* database call and transport call ends.
LoopRows ==
    [status : {PENDING}, priority : {0}, scheduled_at : {NULL, 0, MaxTime},
     created_at : {0}, sent_at : {NULL}, attempt_count : {0},
     last_error : {NO_ERROR}, recipients : {<<"a">>}]

LoopInit ==
    /\ now = 0
    /\ store \in [JobIds -> LoopRows]
    /\ lock = [j \in JobIds |-> 0]
    /\ wpc = [w \in Workers |-> "poll"]
    /\ wbatch = [w \in Workers |-> {}]
    /\ ppc = [r \in Passes |-> "free"]
    /\ pids = [r \in Passes |-> {}]
    /\ pnow = [r \in Passes |-> NULL]
    /\ loaded = [p \in Procs |-> [j \in JobIds |-> NULL]]
    /\ disp = [p \in Procs |-> [j \in JobIds |-> NoTask]]
    /\ taken = [j \in JobIds |-> 0]
    /\ wsleep = [w \in Workers |-> 0]
    /\ wseq = [w \in Workers |-> <<>>]
    /\ intake = [r \in Passes |-> NoRequest]
    /\ RetryOff
    /\ ManyOff

\* one step of worker w's main_loop
WStep(w) ==
    \/ WClaim(w)
    \/ WClaimError(w)
    \/ WMarkProcessing(w)
    \/ WMarkError(w)
    \/ WAggregate(w)
    \/ WAggregateError(w)
    \/ WWake(w)

LoopNext ==
    \/ TickTo(MaxTime)
    \/ \E w \in Workers : WStep(w)
    \/ \E w \in Workers, j \in JobIds : Acquire(w, j)
    \/ \E w \in Workers, j \in JobIds, ok \in BOOLEAN : TransportDone(w, j, ok)

LoopFair ==
    \A w \in Workers :
        /\ WF_vars(WStep(w))
        /\ WF_vars(\E j \in JobIds : Acquire(w, j))
        /\ WF_vars(\E j \in JobIds, ok \in BOOLEAN : TransportDone(w, j, ok))

SpecLoop == LoopInit /\ [][LoopNext]_vars /\ LoopFair

\* the poll loop of every worker over rows queued earlier, in a run without
\* database errors and without crashes
PollNext ==
    \/ TickTo(MaxTime)
    \/ \E w \in Workers : WClaim(w)
    \/ \E w \in Workers : WMarkProcessing(w)
    \/ \E w \in Workers : WAggregate(w)
    \/ \E w \in Workers : WWake(w)
    \/ \E w \in Workers, j \in JobIds : Acquire(w, j)
    \/ \E w \in Workers, j \in JobIds, ok \in BOOLEAN : TransportDone(w, j, ok)

PollFair ==
    \A w \in Workers :
        /\ WF_vars(WClaim(w) \/ WMarkProcessing(w) \/ WAggregate(w) \/ WWake(w))
        /\ WF_vars(\E j \in JobIds : Acquire(w, j))
        /\ WF_vars(\E j \in JobIds, ok \in BOOLEAN : TransportDone(w, j, ok))

SpecPoll == LoopInit /\ [][PollNext]_vars /\ PollFair

\* the Result Aggregator alone: a pass (worker 1 or a background run) holds
\* one result per job of its batch and writes them, then writes them again
ApplyRows ==
    [status : {PENDING, PROCESSING}, priority : {0}, scheduled_at : {0},
     created_at : {0}, sent_at : {NULL}, attempt_count : {0, 1},
     last_error : {NO_ERROR}, recipients : {<<"a">>}]

ApplyInit ==
    /\ now = 0
    /\ store \in [JobIds -> ApplyRows]
    /\ lock = [j \in JobIds |-> 0]
    /\ pnow = [r \in Passes |-> NULL]
    /\ taken = [j \in JobIds |-> 0]
    /\ wsleep = [w \in Workers |-> 0]
    /\ intake = [r \in Passes |-> NoRequest]
    /\ \E p \in {1} \cup Passes : \E batch \in (SUBSET JobIds) \ {{}} :
       \E res \in [batch -> {"ok", "fail"}] :
          /\ wpc = [w \in Workers |-> IF w = p THEN "dispatch" ELSE "poll"]
          /\ wbatch = [w \in Workers |-> IF w = p THEN batch ELSE {}]
          /\ \E seq \in FetchOrders(batch) :
                wseq = [w \in Workers |-> IF w = p THEN seq ELSE <<>>]
          /\ ppc = [r \in Passes |-> IF r = p THEN "dispatch" ELSE "free"]
          /\ pids = [r \in Passes |-> IF r = p THEN batch ELSE {}]
          /\ loaded = [q \in Procs |-> [j \in JobIds |->
                          IF q = p /\ j \in batch THEN store[j].attempt_count ELSE NULL]]
          /\ disp = [q \in Procs |-> [j \in JobIds |->
                          IF q = p /\ j \in batch
                          THEN [st |-> res[j], fly |-> 0, queued |-> 0]
                          ELSE NoTask]]
    /\ RetryOff
    /\ ManyOff

ApplyNext ==
    \/ TickTo(MaxTime)
    \/ \E w \in Workers : ApplyWorker(w)
    \/ \E r \in Passes : ApplyRunUpdate(r)
    \/ \E r \in Passes : ApplyRunCommit(r)

SpecApply == ApplyInit /\ [][ApplyNext]_vars

\* one call of send_email_to_many for every argument within the bounds and
\* every behaviour of the transport
Addresses == <<"a", "b", "c", "d", "e", "f">>
ManyInputs ==
    {SubSeq(Addresses, 1, n) : n \in 0..MaxRecipients}
    \cup UNION {{SubSeq(Addresses, 1, p) \o <<" ">> \o SubSeq(Addresses, p + 1, n) :
                    p \in 0..n} : n \in 0..MaxRecipients}

ManyInit ==
    /\ SysInit
    /\ RetryOff
    /\ mpc = "start"
    /\ minput \in ManyInputs
    /\ mbsize \in 1..MaxBatchSize
    /\ mconc \in 1..MaxChunkConcurrency
    /\ mattempts \in 1..MaxChunkAttempts
    /\ mbatches = <<>>
    /\ mchunk = <<>>

ManyNext ==
    \/ MStart
    \/ \E c \in Chunks : MAcquire(c)
    \/ \E c \in Chunks, ok \in BOOLEAN : MCall(c, ok)
    \/ \E c \in Chunks : MSleepDone(c)

SpecMany == ManyInit /\ [][ManyNext]_vars

----------------------------------------------------------------------------
(* Properties *)

\* the passes that have issued transport calls for job j
Senders(j) ==
    {p \in Procs : disp[p][j].st \in {"run", "ok", "fail"} \/ disp[p][j].fly > 0}

\* the jobs pass p is handling
BatchOf(p) == IF p \in Workers THEN wbatch[p] ELSE pids[p]

\* C1: workers that claim concurrently never hold the same job: the batches of
\* two workers are disjoint, every row of a batch whose claim transaction is
\* open is locked by its claimer, and a polling worker's claim query can always
\* run (it passes over locked rows, it does not wait for them).
C1_ExclusiveClaim ==
    /\ \A w1, w2 \in Workers : w1 # w2 => wbatch[w1] \cap wbatch[w2] = {}
    /\ \A w \in Workers : wpc[w] = "claimed" => \A j \in wbatch[w] : lock[j] = w
    /\ \A w \in Workers : wpc[w] = "poll" => ENABLED WClaim(w)

\* two claim transactions are open at once, each with rows of the same due set
C1_Witness ==
    /\ wpc[1] = "claimed" /\ wpc[2] = "claimed"
    /\ wbatch[1] # {} /\ wbatch[2] # {}
    /\ \A j \in wbatch[1] \cup wbatch[2] : Due(j)

\* C2: at most one processing pass (a worker's process_batch or the intake's
\* process_notifications_async) ever issues transport calls for a job.
C2_SinglePickup ==
    \A j \in JobIds : Cardinality(Senders(j)) <= 1

\* C3: when a pass completes, every job of its batch has an attempt count one
\* greater than when the pass took it up, and status SENT or FAILED.
C3_AttemptPlusOne ==
    [][/\ \A w \in Workers :
            wpc[w] = "dispatch" /\ wpc'[w] = "poll" =>
                \A j \in wbatch[w] :
                    /\ store'[j].attempt_count = loaded[w][j] + 1
                    /\ store'[j].status \in {SENT, FAILED}
       /\ \A r \in Passes :
            ppc[r] # "done" /\ ppc'[r] = "done" =>
                \A j \in pids[r] :
                    /\ store'[j].attempt_count = loaded[r][j] + 1
                    /\ store'[j].status \in {SENT, FAILED}]_vars

\* C4: while a transport call for a job is in flight, the job's committed
\* status is no longer PENDING (PROCESSING was committed before the call).
C4_ProcessingBeforeSend ==
    \A j \in JobIds : \A p \in Procs :
        disp[p][j].fly > 0 => store[j].status # PENDING

\* C5: every change of a stored status follows
\* (created) -> PENDING -> PROCESSING -> SENT or FAILED, SENT and FAILED final.
C5_Lifecycle ==
    [][\A j \in JobIds :
          store'[j].status # store[j].status =>
              \/ store[j].status = ABSENT /\ store'[j].status = PENDING
              \/ store[j].status = PENDING /\ store'[j].status = PROCESSING
              \/ store[j].status = PROCESSING /\ store'[j].status \in {SENT, FAILED}]_vars

\* the transport calls in flight for the batch pass p is dispatching
RECURSIVE InFlight(_, _)
InFlight(p, S) ==
    IF S = {} THEN 0
    ELSE LET j == CHOOSE k \in S : TRUE IN disp[p][j].fly + InFlight(p, S \ {j})

C7_FailureIsolation ==
    [][/\ \A p \in Procs : \A j \in JobIds :
            disp[p][j].st = "run" /\ disp'[p][j].st # "run" =>
                /\ disp'[p][j].st \in {"ok", "fail"}
                /\ \A k \in JobIds \ {j} : disp'[p][k] = disp[p][k]
                /\ p \in Workers => wpc'[p] = "dispatch" /\ wbatch'[p] = wbatch[p]
                /\ p \in Passes => ppc'[p] = "dispatch"
       /\ \A w \in Workers :
            wpc[w] = "dispatch" /\ wpc'[w] # "dispatch" =>
                /\ wpc'[w] = "poll"
                /\ \A j \in wbatch[w] :
                    /\ disp[w][j].st \in {"ok", "fail"}
                    /\ disp[w][j].st = "fail" => store'[j].status = FAILED
                    /\ disp[w][j].st = "ok" => store'[j].status = SENT
       /\ \A r \in Passes :
            ppc[r] # "done" /\ ppc'[r] = "done" =>
                \A j \in pids[r] :
                    /\ disp[r][j].st \in {"ok", "fail"}
                    /\ disp[r][j].st = "fail" => store'[j].status = FAILED
                    /\ disp[r][j].st = "ok" => store'[j].status = SENT
       /\ \A r \in Passes :
            ppc[r] = "dispatch" /\ ppc'[r] # "dispatch" =>
                ppc'[r] \in {"updated_success", "updated_failure"}]_vars

\* a pass has written FAILED for one job of its batch and SENT for a sibling
C7_Witness ==
    \E p \in Procs : \E j, k \in JobIds :
        /\ j # k
        /\ store[j].status = FAILED /\ store[k].status = SENT
        /\ IF p \in Workers
           THEN wpc[p] = "poll" /\ store[j].last_error = SEND_ERROR
                /\ store[j].sent_at = NULL /\ store[k].attempt_count = 1
                /\ \A q \in Passes : ppc[q] = "scheduled"
           ELSE ppc[p] = "done" /\ store[j].last_error = BULK_ERROR

\* C8: the claim query with limit L returns min(L, n) of the n rows that are
\* PENDING, due (scheduled_at <= now) and unlocked, and no row it leaves out
\* ranks before a row it returns (priority descending, then created_at
\* ascending).
C8_Eligible(j) ==
    /\ store[j].status = PENDING
    /\ store[j].scheduled_at # NULL /\ store[j].scheduled_at <= now
    /\ lock[j] = 0

C8_Outranks(a, b) ==
    \/ store[a].priority > store[b].priority
    \/ store[a].priority = store[b].priority /\ store[a].created_at < store[b].created_at

C8_ClaimSelection ==
    [][\A w \in Workers :
          wpc[w] = "poll" /\ wpc'[w] \in {"claimed", "idle_sleep"} =>
              LET eligible == {j \in JobIds : C8_Eligible(j)}
                  batch == wbatch'[w]
              IN /\ batch \subseteq eligible
                 /\ Cardinality(batch) = Min(BATCH_SIZE, Cardinality(eligible))
                 /\ \A j \in batch : \A k \in eligible \ batch : ~C8_Outranks(k, j)]_vars

\* priorities [5, 1, 5] created at t1 < t2 < t3, all due and unlocked: a claim
\* with limit 2 holds the two priority-5 rows
C8_Witness ==
    /\ store[1].priority = 5 /\ store[2].priority = 1 /\ store[3].priority = 5
    /\ store[1].created_at < store[2].created_at
    /\ store[2].created_at < store[3].created_at
    /\ \A j \in {1, 2, 3} : store[j].status = PENDING /\ store[j].scheduled_at = 0
    /\ wpc[1] = "claimed" /\ wbatch[1] = {1, 3}
    /\ lock[2] = 0 /\ wpc[2] = "poll"

\* C9: a job whose scheduled time lies in the future is PENDING and no
\* transport call has been issued for it.
C9_NotBeforeSchedule ==
    \A j \in JobIds :
        Exists(j) /\ store[j].scheduled_at # NULL /\ now < store[j].scheduled_at =>
            /\ store[j].status = PENDING
            /\ Senders(j) = {}

\* C10: for attempts = n >= 1, _retry raises only after n calls that all
\* failed, and the error it raises is that of call n; it returns only after a
\* call that succeeded, which is the first that succeeded and the last made;
\* and it stops nowhere else.
C10_Retry ==
    rattempts >= 1 =>
        /\ rpc = "raised" =>
              /\ rcalls = rattempts
              /\ rlast = rattempts
              /\ \A i \in 1..rattempts : ~rscript[i]
        /\ rpc = "returned" =>
              /\ rcalls \in 1..rattempts
              /\ rscript[rcalls]
              /\ \A i \in 1..(rcalls - 1) : ~rscript[i]
        /\ rpc \in {"loop", "sleep"} => ENABLED RetryNext

\* attempts = 3 and an operation that always fails: three calls, then the raise
C10_Witness ==
    /\ rattempts = 3 /\ rpc = "raised" /\ rcalls = 3
    /\ \A i \in 1..3 : ~rscript[i]

\* C11: the delay slept before retry i is min(maxDelay, baseDelay * 2^i) times
\* a jitter factor in [0.5, 1.0): at least half of that backoff, strictly less
\* than it, and never more than maxDelay.
C11_DelayBounded ==
    rpc = "sleep" =>
        /\ 2 * rsleep >= Backoff(ri) * SleepDen
        /\ rsleep < Backoff(ri) * SleepDen
        /\ rsleep <= MAX_DELAY * SleepDen

\* the batches of a call, one after the other
RECURSIVE Concat(_)
Concat(bs) == IF bs = <<>> THEN <<>> ELSE Head(bs) \o Concat(Tail(bs))

\* the transport calls a call of send_email_to_many has issued
RECURSIVE TotalCalls(_)
TotalCalls(S) ==
    IF S = {} THEN 0
    ELSE LET k == CHOOSE x \in S : TRUE IN mchunk[k].calls + TotalCalls(S \ {k})

\* no transport call of the call has failed so far
AllSucceeded == \A k \in Chunks : mchunk[k].i = 0 /\ mchunk[k].st \notin {"sleep", "fail"}

\* C12: send_email_to_many with n non-blank recipients and batch_size b cuts
\* ceil(n/b) chunks, each of b recipients except possibly the last, whose
\* concatenation is the stripped recipient list in its order; when every
\* transport call succeeds it issues exactly one call per chunk, ceil(n/b) in
\* all, and returns.
C12_ChunkCalls ==
    mpc \in {"gather", "returned", "raised"} =>
        LET recips == StripBlank(minput)
            n == Len(recips)
            m == Len(mbatches)
        IN /\ m = CeilDiv(n, mbsize)
           /\ \A k \in 1..(m - 1) : Len(mbatches[k]) = mbsize
           /\ m > 0 => Len(mbatches[m]) \in 1..mbsize
           /\ Concat(mbatches) = recips
           /\ Chunks = 1..m
           /\ AllSucceeded => /\ TotalCalls(Chunks) <= m
                              /\ mpc # "raised"
           /\ AllSucceeded /\ (\A k \in Chunks : mchunk[k].st = "ok") =>
                  /\ mpc = "returned"
                  /\ TotalCalls(Chunks) = m
                  /\ \A k \in Chunks : mchunk[k].calls = 1

\* five recipients (one blank entry dropped) and batch_size 2: chunks of 2, 2
\* and 1, three calls, all successful, and the call has returned
C12_Witness ==
    /\ minput = <<"a", "b", " ", "c", "d", "e">> /\ mbsize = 2
    /\ mbatches = << <<"a", "b">>, <<"c", "d">>, <<"e">> >>
    /\ mpc = "returned"
    /\ TotalCalls(Chunks) = 3

\* C13: a chunk that fails on every retry makes the call report failure and
\* touches no sibling: the step in which a chunk fails (and the gather raises)
\* leaves every other chunk as it was; no chunk is ever cancelled; a chunk
\* ends in failure only after max_attempts calls of its own and in success
\* after at most max_attempts; and every unfinished chunk can still go on (it
\* can take its next step, or it waits for a slot that a chunk able to step
\* holds).
C13_ChunkIsolation ==
    /\ [](/\ \A k \in Chunks :
               /\ mchunk[k].st \in {"wait", "call", "sleep", "ok", "fail"}
               /\ mchunk[k].st = "fail" => mchunk[k].calls = mattempts
               /\ mchunk[k].st = "ok" => mchunk[k].calls \in 1..mattempts
               /\ mchunk[k].st = "call" => ENABLED MCall(k, TRUE)
               /\ mchunk[k].st = "sleep" => ENABLED MSleepDone(k)
               /\ mchunk[k].st = "wait" =>
                      \/ ENABLED MAcquire(k)
                      \/ \E h \in Holding :
                            ENABLED MCall(h, TRUE) \/ ENABLED MSleepDone(h)
          /\ (\E k \in Chunks : mchunk[k].st = "fail") <=> mpc = "raised")
    /\ [][\A c \in Chunks :
            mchunk[c].st # "fail" /\ mchunk'[c].st = "fail" =>
                /\ \A k \in Chunks \ {c} : mchunk'[k] = mchunk[k]
                /\ mpc' = "raised"]_vars

\* the call has raised for a failed chunk while a sibling is at its second
\* attempt and another still waits for the only slot
C13_Witness ==
    /\ mpc = "raised" /\ mconc = 1 /\ mattempts = 2
    /\ \E c, k, w \in Chunks :
          /\ mchunk[c].st = "fail" /\ mchunk[c].calls = 2
          /\ mchunk[k].st = "call" /\ mchunk[k].i = 1
          /\ mchunk[w].st = "wait"

\* the row a single completed pass leaves: SENT with sent time and no error,
\* or FAILED with an error and attempt count 1
C14_Outcome(row, ok) ==
    IF ok
    THEN row.status = SENT /\ row.sent_at # NULL /\ row.last_error = NO_ERROR
    ELSE row.status = FAILED /\ row.last_error # NO_ERROR /\ row.attempt_count = 1

\* C14: a job that exactly one pass has taken up ends, when that pass
\* completes, SENT with sent time set and last-error null if the transport
\* succeeded for all its recipients, and FAILED with last-error set and
\* attempt count 1 if a transport call failed on every retry; and it keeps
\* that outcome for as long as no other pass takes it up.
C14_EndToEnd ==
    /\ [](\A j \in JobIds :
              taken[j] = 1 /\ store[j].status \in {SENT, FAILED} =>
                  C14_Outcome(store[j], store[j].status = SENT))
    /\ [][/\ \A w \in Workers :
                wpc[w] = "dispatch" /\ wpc'[w] = "poll" =>
                    \A j \in wbatch[w] :
                        taken[j] = 1 => C14_Outcome(store'[j], disp[w][j].st = "ok")
          /\ \A r \in Passes :
                ppc[r] # "done" /\ ppc'[r] = "done" =>
                    \A j \in pids[r] :
                        taken[j] = 1 => C14_Outcome(store'[j], disp[r][j].st = "ok")]_vars

\* one request queued two jobs; its run, the only pass to take them up, has
\* ended: the job with two recipients is SENT, its sibling FAILED after one
\* attempt
C14_Witness ==
    \E j, k \in JobIds :
        /\ taken[j] = 1 /\ taken[k] = 1
        /\ store[j].status = SENT /\ Len(store[j].recipients) = 2
        /\ store[j].sent_at # NULL /\ store[j].attempt_count = 1
        /\ store[k].status = FAILED /\ store[k].attempt_count = 1
        /\ \E r \in Passes : ppc[r] = "done" /\ pids[r] = {j, k}

\* C15: applying the same results again leaves every job of the batch with
\* the terminal status the first application gave it: once a job is SENT or
\* FAILED no further application changes its status, and after any number of
\* applications the status is the one its result calls for.
C15_Idempotent ==
    /\ [](\A p \in Procs : \A j \in BatchOf(p) :
              (IF p \in Workers THEN wpc[p] ELSE ppc[p]) \in {"applied", "applied_twice"} =>
                  store[j].status = IF disp[p][j].st = "ok" THEN SENT ELSE FAILED)
    /\ [][\A j \in JobIds :
            store[j].status \in {SENT, FAILED} => store'[j].status = store[j].status]_vars

\* the same results written twice: a job SENT both times, a sibling FAILED
\* both times, each with two attempts counted
C15_Witness ==
    \E p \in Procs : \E j, k \in BatchOf(p) :
        /\ (IF p \in Workers THEN wpc[p] ELSE ppc[p]) = "applied_twice"
        /\ store[j].status = SENT /\ store[j].attempt_count >= 2
        /\ store[k].status = FAILED /\ store[k].attempt_count >= 2

\* C16: the poll loop is never terminal.  Every error of a pass (claim query,
\* PROCESSING commit, result commit) puts the loop into the sleep of twice the
\* normal interval, from which its only step is back to polling; a worker is
\* always at one of the loop's positions; and every worker makes a claim
\* attempt again and again.
C16_LoopNeverTerminal ==
    /\ [](\A w \in Workers :
              /\ wpc[w] \in {"poll", "claimed", "dispatch", "idle_sleep", "error_sleep"}
              /\ wpc[w] = "error_sleep" => wsleep[w] = 2 * WORKER_SLEEP_INTERVAL
              /\ wpc[w] = "idle_sleep" => wsleep[w] = WORKER_SLEEP_INTERVAL)
    /\ [][\A w \in Workers :
            /\ WClaimError(w) \/ WMarkError(w) \/ WAggregateError(w) =>
                  wpc'[w] = "error_sleep"
            /\ wpc[w] = "error_sleep" /\ wpc'[w] # "error_sleep" => wpc'[w] = "poll"]_vars
    /\ \A w \in Workers : []<><<WClaim(w) \/ WClaimError(w)>>_vars

\* a worker sleeps the long interval after its result commit failed: the jobs
\* of the pass are left PROCESSING
C16_Witness ==
    \E w \in Workers : \E j \in JobIds :
        /\ wpc[w] = "error_sleep" /\ wsleep[w] = 20
        /\ store[j].status = PROCESSING /\ taken[j] = 1
        /\ \A v \in Workers : j \notin wbatch[v]

C18_Invalid(items) == \E i \in 1..Len(items) : StripBlank(items[i].recipients) = <<>>

\* C18: a request with an item whose recipient list is empty after stripping
\* is rejected (bad request), stores no job, not even for its valid items, and
\* schedules no background run; every stored job has a non-empty recipient
\* list without blank entries.
C18_IntakeValidation ==
    /\ [](/\ \A j \in JobIds :
               Exists(j) =>
                   /\ store[j].recipients # <<>>
                   /\ \A i \in 1..Len(store[j].recipients) : store[j].recipients[i] # " "
          /\ \A r \in Passes :
               ppc[r] # "free" /\ C18_Invalid(intake[r].items) =>
                   /\ ppc[r] = "rejected"
                   /\ intake[r].ids = {} /\ intake[r].rows = <<>>
                   /\ pids[r] = {})
    /\ [][\A r \in Passes :
            /\ ppc[r] = "free" /\ ppc'[r] = "rejected" => store' = store /\ pids' = pids
            /\ ppc[r] = "rejected" => ppc'[r] = "rejected"]_vars

\* a bulk request whose first item is valid and whose second has only a blank
\* recipient has been rejected: the table is empty
C18_Witness ==
    \E r \in Passes :
        /\ ppc[r] = "rejected"
        /\ Len(intake[r].items) = 2
        /\ intake[r].items[1].recipients = <<"a">>
        /\ intake[r].items[2].recipients = <<" ">>
        /\ \A j \in JobIds : ~Exists(j)

\* the positions of a request whose background run has been scheduled
C19_Scheduled == {"scheduled", "dispatch", "updated_success", "updated_failure", "done"}

\* C19: the handlers commit the new rows, PENDING with attempt count 0,
\* before they schedule the background run and return: the commit step
\* stores them and schedules nothing, the run is scheduled only from the
\* committed position and for rows already in the table; before the commit no
\* row of the request is in the table; if the insert fails the transaction is
\* rolled back, the table is left as it was and nothing is scheduled.
C19_DurableBeforeSchedule ==
    /\ [](\A r \in Passes :
              /\ ppc[r] = "inserted" =>
                    pids[r] = {} /\ \A j \in intake[r].ids : ~Exists(j)
              /\ ppc[r] \in C19_Scheduled =>
                    pids[r] = intake[r].ids /\ \A j \in pids[r] : Exists(j)
              /\ ppc[r] = "rejected" =>
                    pids[r] = {} /\ intake[r].ids = {} /\ intake[r].rows = <<>>)
    /\ [][\A r \in Passes :
            /\ ppc[r] = "inserted" /\ ppc'[r] = "committed" =>
                  /\ pids'[r] = {}
                  /\ \A j \in intake[r].ids :
                        store'[j].status = PENDING /\ store'[j].attempt_count = 0
            /\ ppc[r] # "scheduled" /\ ppc'[r] = "scheduled" =>
                  /\ ppc[r] = "committed"
                  /\ \A j \in pids'[r] : Exists(j)
            /\ ppc[r] = "inserted" /\ ppc'[r] = "rejected" => store' = store]_vars

\* a bulk request has committed two rows and has not yet scheduled its run
C19_Witness ==
    \E r \in Passes :
        /\ ppc[r] = "committed" /\ pids[r] = {}
        /\ Cardinality(intake[r].ids) = 2
        /\ \A j \in intake[r].ids : store[j].status = PENDING /\ store[j].attempt_count = 0

\* the jobs a dead worker left behind
C20_Orphans == UNION {wbatch[w] : w \in {v \in Workers : wpc[v] = "crashed"}}

\* C20: a job whose worker died after committing PROCESSING and before
\* committing the result stays PROCESSING in every later state, and no later
\* claim of any worker returns it.
C20_StuckProcessing ==
    /\ [][\A j \in C20_Orphans :
            store[j].status = PROCESSING => store'[j].status = PROCESSING]_vars
    /\ [](\A j \in C20_Orphans : \A w \in Workers :
              wpc[w] # "crashed" => j \notin wbatch[w])

\* the passes that have finished with job j: none holds it any more
C21_AllPassesOver(j) ==
    /\ \A w \in Workers : j \notin wbatch[w]
    /\ \A r \in Passes : j \in pids[r] => ppc[r] = "done"

\* C21: a job's stored attempt count never decreases: no step of the intake
\* path, of a background run or of a worker, in any interleaving, stores a
\* count lower than the one stored before it.
C21_AttemptMonotone ==
    [][\A j \in JobIds : store'[j].attempt_count >= store[j].attempt_count]_vars

\* a worker has written the count it computed from the row as it loaded it
\* (0 + 1) over the count the background run had committed meanwhile (1)
C21_Witness ==
    \E j \in JobIds :
        /\ taken[j] = 2 /\ C21_AllPassesOver(j)
        /\ store[j].attempt_count = 1
        /\ store[j].last_error = SEND_ERROR

\* C22: when a pass of the poll loop ends without the process dying, by its
\* result commit or by an error the loop catches, no job of its batch is
\* left PROCESSING.
C22_NoProcessingAfterPass ==
    [][\A w \in Workers :
          wpc[w] = "dispatch" /\ wpc'[w] \in {"poll", "error_sleep"} =>
              \A j \in wbatch[w] : store'[j].status # PROCESSING]_vars

\* C23: the batch the claim hands to the dispatcher is in the order of the
\* locking sub-query: no job of the sequence ranks (priority descending, then
\* creation time ascending) before a job that precedes it.
C23_BatchOrdered ==
    \A w \in Workers : \A i, k \in DOMAIN wseq[w] :
        i < k => ~C8_Outranks(wseq[w][k], wseq[w][i])

\* the chunks whose transport call is in flight, and those between their
\* first call and their end (in a call or in the backoff sleep before a retry)
C24_InFlight == {k \in Chunks : mchunk[k].st = "call"}
C24_Started == {k \in Chunks : mchunk[k].st \in {"call", "sleep"}}

\* C24: within one call of send_email_to_many at most `concurrency` chunk
\* transport calls are in flight at the same time, whatever the number of
\* chunks, also while chunks fail and are retried and after the call has
\* raised; a chunk keeps its slot through its retries, so no more than
\* `concurrency` chunks are between their first call and their end.
C24_ChunkCallsBounded ==
    /\ Cardinality(C24_InFlight) <= mconc
    /\ Cardinality(C24_Started) <= mconc

\* concurrency 2 and four chunks: one chunk has failed for good and the call
\* has raised, two chunks are in flight, one of them at its second attempt,
\* and the fourth waits for a slot
C24_Witness ==
    /\ mconc = 2 /\ Len(mbatches) = 4 /\ mpc = "raised"
    /\ Cardinality(C24_InFlight) = 2
    /\ \E k \in C24_InFlight : mchunk[k].i = 1
    /\ \E k \in Chunks : mchunk[k].st = "wait"
    /\ \E k \in Chunks : mchunk[k].st = "fail"

C26_PollLoop ==
    /\ [](\A w \in Workers :
              /\ wpc[w] = "idle_sleep" =>
                    wsleep[w] = WORKER_SLEEP_INTERVAL /\ wbatch[w] = {}
              /\ wpc[w] = "error_sleep" => wsleep[w] = 2 * WORKER_SLEEP_INTERVAL
              /\ wpc[w] \in {"poll", "claimed", "dispatch"} => wsleep[w] = 0
              /\ wpc[w] \in {"claimed", "dispatch"} => wbatch[w] # {})
    /\ [][\A w \in Workers :
            /\ wpc[w] = "poll" /\ wpc'[w] # "poll" =>
                  \/ wpc'[w] = "idle_sleep" /\ wbatch'[w] = {}
                       /\ {j \in JobIds : C8_Eligible(j)} = {}
                       /\ store' = store /\ lock' = lock
                  \/ wpc'[w] = "claimed" /\ wbatch'[w] # {}
                  \/ wpc'[w] = "error_sleep" /\ WClaimError(w)
            /\ wpc[w] # "error_sleep" /\ wpc'[w] = "error_sleep" =>
                  WClaimError(w) \/ WMarkError(w) \/ WAggregateError(w)
            /\ wpc[w] # "idle_sleep" /\ wpc'[w] = "idle_sleep" => wpc[w] = "poll"
            /\ wpc[w] = "claimed" /\ wpc'[w] # "claimed" =>
                  wpc'[w] \in {"dispatch", "error_sleep"}
            /\ wpc[w] = "dispatch" /\ wpc'[w] # "dispatch" =>
                  \/ wpc'[w] = "poll" /\ wsleep'[w] = 0
                  \/ wpc'[w] = "error_sleep"
            /\ wpc[w] \in {"idle_sleep", "error_sleep"} /\ wpc'[w] # wpc[w] =>
                  wpc'[w] = "poll"]_vars

\* one worker sleeps the normal interval after an empty claim while a job
\* that is not yet due stays PENDING; the other sleeps twice the interval
\* after an error; a third job has been sent by a completed pass
C26_Witness ==
    \E w, v \in Workers :
        /\ wpc[w] = "idle_sleep" /\ wsleep[w] = 10
        /\ wpc[v] = "error_sleep" /\ wsleep[v] = 20
        /\ \E j, k \in JobIds :
              /\ store[j].status = PENDING /\ store[j].scheduled_at > now
              /\ store[k].status = SENT

\* the passes that have taken job j up and have not yet ended
C27_InProgress(j) ==
    {w \in Workers : wpc[w] = "dispatch" /\ j \in wbatch[w]}
    \cup {r \in Passes : ppc[r] \in {"dispatch", "updated_success", "updated_failure"}
                         /\ j \in pids[r]}

\* C27: no attempt is lost: in every state a job's stored attempt count is the
\* number of completed passes that handled it.
C27_NoLostAttempt ==
    \A j \in JobIds :
        store[j].attempt_count = taken[j] - Cardinality(C27_InProgress(j))

\* C28: in every state of the Job Store a job's sent time is set if and only
\* if its status is SENT.
C28_SentAtIffSent ==
    \A j \in JobIds :
        Exists(j) => (store[j].sent_at # NULL <=> store[j].status = SENT)

\* C29: in every state of the Job Store a SENT job has no last-error and a
\* FAILED job has one, however worker passes and background runs interleave.
C29_ErrorMatchesStatus ==
    \A j \in JobIds :
        /\ store[j].status = SENT => store[j].last_error = NO_ERROR
        /\ store[j].status = FAILED => store[j].last_error # NO_ERROR

\* two passes have written the same job, the worker last (its count of 1 is
\* over the run's): the job is SENT and carries no error, whatever the
\* background run had written
C29_Witness ==
    \E j \in JobIds :
        /\ taken[j] = 2 /\ C27_InProgress(j) = {}
        /\ store[j].status = SENT /\ store[j].last_error = NO_ERROR
        /\ store[j].attempt_count = 1

\* C30: when a pass has a job's result (its _send_one has returned and given
\* its slot back), no transport call for the job is in flight or still to be
\* started by that pass.
C30_SendsOverAtResult ==
    \A p \in Procs : \A j \in JobIds :
        disp[p][j].st \in {"ok", "fail"} =>
            disp[p][j].fly = 0 /\ disp[p][j].queued = 0

\* C31: a job stored without a scheduled time is due at once: it is claimed
\* by a worker of the poll loop, as a job whose scheduled time has been
\* reached is.
C31_UnscheduledIsClaimed ==
    \A j \in JobIds :
        (store[j].status = PENDING /\ store[j].scheduled_at = NULL) ~> taken[j] > 0

\* (for comparison) a job whose scheduled time has been reached is claimed
C31_DueIsClaimed ==
    \A j \in JobIds :
        (store[j].status = PENDING /\ store[j].scheduled_at # NULL
            /\ store[j].scheduled_at <= now) ~> taken[j] > 0

====
